---- MODULE Spec2Model ----
(***************************************************************************)
(* VeriFloat: three bounded-return checks (verifloat.py, verifloat_fp.py,  *)
(* verifloat_multi.py) that hand a constraint set and the negated bound    *)
(* property to an SMT solver, and the suite runner run_all_tests           *)
(* (test_cases.py) that calls them in sequence and prints what they        *)
(* return.                                                                 *)
(*                                                                         *)
(* Reals are exact rationals <<numerator, denominator>> with a positive    *)
(* denominator.  The solver is the environment: it answers a query over a  *)
(* finite grid of rational assignments.                                    *)
(***************************************************************************)
EXTENDS Integers, Sequences, FiniteSets, TLC

VARIABLES pc, idx, stdout, solver, result, model, retval, calls, seen,
          gives_up, scen, asg, accepted

vars == <<pc, idx, stdout, solver, result, model, retval, calls, seen,
          gives_up, scen, asg, accepted>>

----------------------------------------------------------------------------
(* Bounds of the model *)

\* weights are examined at the multiples of 1/WDen from 0 to 1
WDen == 2
\* number of calls the free caller of SpecRepeat makes
MaxCalls == 3

----------------------------------------------------------------------------
(* Exact rational arithmetic (z3 Real) *)

Rat(n, d) == <<n, d>>
RealVal(n) == <<n, 1>>
RAdd(x, y) == <<x[1] * y[2] + y[1] * x[2], x[2] * y[2]>>
RMul(x, y) == <<x[1] * y[1], x[2] * y[2]>>
RLe(x, y) == x[1] * y[2] <= y[1] * x[2]
RLt(x, y) == x[1] * y[2] < y[1] * x[2]
RGe(x, y) == RLe(y, x)
RGt(x, y) == RLt(y, x)
REq(x, y) == x[1] * y[2] = y[1] * x[2]

\* 0.001, the drift tolerance, is 1/Milli
Milli == 1000

----------------------------------------------------------------------------
(* The symbolic variables of each check *)

Scenarios == {1, 2, 3}

WNames == {"w1", "w2", "w3"}
RNames1 == {"r1", "r2", "r3"}
ENames == {"epsilon"}
RNames3 == {"r1_1", "r2_1", "r3_1", "r1_2", "r2_2", "r3_2"}

Variables(s) ==
    CASE s = 1 -> WNames \cup RNames1
      [] s = 2 -> WNames \cup RNames1 \cup ENames
      [] s = 3 -> WNames \cup RNames3

\* the grid the solver searches: weights at the multiples of 1/WDen in [0, 1],
\* returns at the ends and the middle of [-1, 1], the drift at the multiples
\* of 0.001 up to one step outside the tolerance
WVals == {Rat(n, WDen) : n \in 0..WDen}
RVals == {RealVal(-1), RealVal(0), RealVal(1)}
EVals == {Rat(n, Milli) : n \in -2..2}

WeightGrid(V) == [V \cap WNames -> WVals]

\* the grid points over the variables V that have the weights w
GridAt(V, w) ==
    {[v \in V |-> IF v \in WNames THEN w[v]
                  ELSE IF v \in ENames THEN e[v] ELSE r[v]] :
        r \in [V \cap (RNames1 \cup RNames3) -> RVals],
        e \in [V \cap ENames -> EVals]}

Grid(V) == UNION {GridAt(V, w) : w \in WeightGrid(V)}

----------------------------------------------------------------------------
(* verifloat.py *)

portfolio_return1(a) ==
    RAdd(RAdd(RMul(a.w1, a.r1), RMul(a.w2, a.r2)), RMul(a.w3, a.r3))

\* constraints1 without the line (w1 + w2 + w3) <= 1
constraints1_NoWeightSum(a) ==
    /\ RGe(a.w1, RealVal(0)) /\ RLe(a.w1, RealVal(1))
    /\ RGe(a.w2, RealVal(0)) /\ RLe(a.w2, RealVal(1))
    /\ RGe(a.w3, RealVal(0)) /\ RLe(a.w3, RealVal(1))
    /\ RGe(a.r1, RealVal(-1)) /\ RLe(a.r1, RealVal(1))
    /\ RGe(a.r2, RealVal(-1)) /\ RLe(a.r2, RealVal(1))
    /\ RGe(a.r3, RealVal(-1)) /\ RLe(a.r3, RealVal(1))

constraints1(a) ==
    /\ RGe(a.w1, RealVal(0)) /\ RLe(a.w1, RealVal(1))
    /\ RGe(a.w2, RealVal(0)) /\ RLe(a.w2, RealVal(1))
    /\ RGe(a.w3, RealVal(0)) /\ RLe(a.w3, RealVal(1))
    /\ RLe(RAdd(RAdd(a.w1, a.w2), a.w3), RealVal(1))
    /\ RGe(a.r1, RealVal(-1)) /\ RLe(a.r1, RealVal(1))
    /\ RGe(a.r2, RealVal(-1)) /\ RLe(a.r2, RealVal(1))
    /\ RGe(a.r3, RealVal(-1)) /\ RLe(a.r3, RealVal(1))

violation1(a) ==
    \/ RLt(portfolio_return1(a), RealVal(-1))
    \/ RGt(portfolio_return1(a), RealVal(1))

----------------------------------------------------------------------------
(* verifloat_fp.py *)

portfolio_return2(a) ==
    RAdd(RAdd(RAdd(RMul(a.w1, a.r1), RMul(a.w2, a.r2)), RMul(a.w3, a.r3)),
         a.epsilon)

\* constraints2 without the upper bound of epsilon
constraints2_NoDriftCap(a) ==
    /\ RGe(a.w1, RealVal(0)) /\ RLe(a.w1, RealVal(1))
    /\ RGe(a.w2, RealVal(0)) /\ RLe(a.w2, RealVal(1))
    /\ RGe(a.w3, RealVal(0)) /\ RLe(a.w3, RealVal(1))
    /\ RLe(RAdd(RAdd(a.w1, a.w2), a.w3), RealVal(1))
    /\ RGe(a.r1, RealVal(-1)) /\ RLe(a.r1, RealVal(1))
    /\ RGe(a.r2, RealVal(-1)) /\ RLe(a.r2, RealVal(1))
    /\ RGe(a.r3, RealVal(-1)) /\ RLe(a.r3, RealVal(1))
    /\ RGe(a.epsilon, Rat(-1, Milli))

constraints2(a) ==
    /\ RGe(a.w1, RealVal(0)) /\ RLe(a.w1, RealVal(1))
    /\ RGe(a.w2, RealVal(0)) /\ RLe(a.w2, RealVal(1))
    /\ RGe(a.w3, RealVal(0)) /\ RLe(a.w3, RealVal(1))
    /\ RLe(RAdd(RAdd(a.w1, a.w2), a.w3), RealVal(1))
    /\ RGe(a.r1, RealVal(-1)) /\ RLe(a.r1, RealVal(1))
    /\ RGe(a.r2, RealVal(-1)) /\ RLe(a.r2, RealVal(1))
    /\ RGe(a.r3, RealVal(-1)) /\ RLe(a.r3, RealVal(1))
    /\ RGe(a.epsilon, Rat(-1, Milli)) /\ RLe(a.epsilon, Rat(1, Milli))

violation2(a) ==
    \/ RLt(portfolio_return2(a), RealVal(-1))
    \/ RGt(portfolio_return2(a), RealVal(1))

----------------------------------------------------------------------------
(* verifloat_multi.py *)

period1_return(a) ==
    RAdd(RAdd(RMul(a.w1, a.r1_1), RMul(a.w2, a.r2_1)), RMul(a.w3, a.r3_1))

period2_return(a) ==
    RAdd(RAdd(RMul(a.w1, a.r1_2), RMul(a.w2, a.r2_2)), RMul(a.w3, a.r3_2))

total_return(a) == RAdd(period1_return(a), period2_return(a))

\* constraints3 with the weight sum strictly below 1
constraints3_StrictWeightSum(a) ==
    /\ RGe(a.w1, RealVal(0)) /\ RLe(a.w1, RealVal(1))
    /\ RGe(a.w2, RealVal(0)) /\ RLe(a.w2, RealVal(1))
    /\ RGe(a.w3, RealVal(0)) /\ RLe(a.w3, RealVal(1))
    /\ RLt(RAdd(RAdd(a.w1, a.w2), a.w3), RealVal(1))
    /\ \A r \in RNames3 : RGe(a[r], RealVal(-1)) /\ RLe(a[r], RealVal(1))

constraints3(a) ==
    /\ RGe(a.w1, RealVal(0)) /\ RLe(a.w1, RealVal(1))
    /\ RGe(a.w2, RealVal(0)) /\ RLe(a.w2, RealVal(1))
    /\ RGe(a.w3, RealVal(0)) /\ RLe(a.w3, RealVal(1))
    /\ RLe(RAdd(RAdd(a.w1, a.w2), a.w3), RealVal(1))
    /\ \A r \in RNames3 : RGe(a[r], RealVal(-1)) /\ RLe(a[r], RealVal(1))

\* violation3 with the bound itself counted as outside
violation3_NonStrict(a) ==
    \/ RLe(total_return(a), RealVal(-2))
    \/ RGe(total_return(a), RealVal(2))

violation3(a) ==
    \/ RLt(total_return(a), RealVal(-2))
    \/ RGt(total_return(a), RealVal(2))

----------------------------------------------------------------------------
(* The solver session: the set of assertions added to it.  An assertion is *)
(* named by the check that built it and by which of its two solver.add     *)
(* calls added it.                                                         *)

Assertion(s, part) == [of |-> s, part |-> part]

\* solver.add(constraints); solver.add(Or(... < -B, ... > B))
Added(s) == {Assertion(s, "constraints"), Assertion(s, "negation")}

Holds(c, a) ==
    CASE c = Assertion(1, "constraints") -> constraints1(a)
      [] c = Assertion(1, "negation") -> violation1(a)
      [] c = Assertion(2, "constraints") -> constraints2(a)
      [] c = Assertion(2, "negation") -> violation2(a)
      [] c = Assertion(3, "constraints") -> constraints3(a)
      [] c = Assertion(3, "negation") -> violation3(a)

\* the symbolic variables a session mentions
Mentioned(session) == UNION {Variables(c.of) : c \in session}

\* one solver object kept and reused by every call
NewSolver_Shared(old) == old

\* solver = Solver(): a session with no assertion, whatever was built before
NewSolver(old) == {}

NoModel == {}

\* solver.check() and solver.model(): the solver gives up on the queries of
\* the checks in gives_up; otherwise it finds a model of all the assertions
\* of the session or reports that there is none
check(session, s) ==
    IF s \in gives_up
    THEN {[result |-> "unknown", model |-> NoModel]}
    ELSE LET V == Mentioned(session)
             models == UNION {{a \in GridAt(V, w) :
                                   \A c \in session : Holds(c, a)} :
                              w \in WeightGrid(V)}
         IN  IF models = {}
             THEN {[result |-> "unsat", model |-> NoModel]}
             ELSE {[result |-> "sat", model |-> {m}] : m \in models}

----------------------------------------------------------------------------
(* Python values returned and printed *)

None == [kind |-> "None", text |-> "None", model |-> NoModel]
StrVal(text) == [kind |-> "str", text |-> text, model |-> NoModel]
TupleVal(text, m) == [kind |-> "tuple", text |-> text, model |-> m]

\* print(x): one line of standard output, the text of x and whether a model
\* is shown with it
Line(x) == [text |-> x.text, model |-> x.model # NoModel]

----------------------------------------------------------------------------
(* The three checks.  Each is the set of outcomes of one call: the session *)
(* it built, the solver's answer, the value returned and the lines the     *)
(* check itself printed.                                                   *)

verify_portfolio_return(old) ==
    LET session == NewSolver(old) \cup Added(1)
    IN  {[solver |-> session, result |-> ans.result, model |-> ans.model,
          retval |-> IF ans.result = "sat"
                     THEN TupleVal("Violation found!", ans.model)
                     ELSE StrVal("Property holds: Portfolio return within [-1, 1]"),
          printed |-> <<>>] : ans \in check(session, 1)}

verify_portfolio_with_fp_error(old) ==
    LET session == NewSolver(old) \cup Added(2)
    IN  {[solver |-> session, result |-> ans.result, model |-> ans.model,
          retval |-> IF ans.result = "sat"
                     THEN TupleVal("Violation with numerical drift!", ans.model)
                     ELSE StrVal("Property holds even under small numerical errors."),
          printed |-> <<>>] : ans \in check(session, 2)}

verify_two_period_portfolio(old) ==
    LET session == NewSolver(old) \cup Added(3)
    IN  {[solver |-> session, result |-> ans.result, model |-> ans.model,
          retval |-> None,
          printed |-> IF ans.result = "sat"
                      THEN <<Line(StrVal("Violation found in multi-period model!")),
                             Line(TupleVal("", ans.model))>>
                      ELSE <<Line(StrVal("Multi-period portfolio return is consistent."))>>]
         : ans \in check(session, 3)}

Verify(s, old) ==
    CASE s = 1 -> verify_portfolio_return(old)
      [] s = 2 -> verify_portfolio_with_fp_error(old)
      [] s = 3 -> verify_two_period_portfolio(old)

\* what a call reported: the text it returned or, when it returns nothing,
\* the first line it printed
Reported(out) ==
    IF out.retval.kind = "None" THEN out.printed[1].text ELSE out.retval.text

\* one call of check s: its locals and what it wrote
Call(s) ==
    \E out \in Verify(s, solver) :
        /\ solver' = out.solver
        /\ result' = out.result
        /\ model' = out.model
        /\ retval' = out.retval
        /\ stdout' = stdout \o out.printed
        /\ seen' = [seen EXCEPT ![s] = @ \cup {Reported(out)}]

----------------------------------------------------------------------------
(* test_cases.py: run_all_tests *)

\* the drift test and the multi-period test swapped
Order_Swapped == <<1, 3, 2>>

Order == <<1, 2, 3>>

Header(s) ==
    CASE s = 1 -> "\nRunning Basic Portfolio Return Test:"
      [] s = 2 -> "\nRunning Floating-Point Drift Test:"
      [] s = 3 -> "\nRunning Multi-Period Portfolio Return Test:"

Idle == /\ scen = 0 /\ asg = <<>> /\ accepted = "none"

Init ==
    /\ pc = "header" /\ idx = 1
    /\ stdout = <<>>
    /\ solver = {} /\ result = "none" /\ model = NoModel /\ retval = None
    /\ calls = <<>>
    /\ seen = [s \in Scenarios |-> {}]
    /\ gives_up \in SUBSET Scenarios
    /\ Idle

\* print("\nRunning ... Test:")
PrintHeader ==
    /\ pc = "header"
    /\ stdout' = Append(stdout, Line(StrVal(Header(Order[idx]))))
    /\ pc' = "call"
    /\ UNCHANGED <<idx, solver, result, model, retval, calls, seen, gives_up,
                   scen, asg, accepted>>

\* the call inside print(verify_...()) returns
CallCheck ==
    /\ pc = "call"
    /\ Call(Order[idx])
    /\ calls' = Append(calls, Order[idx])
    /\ pc' = "print"
    /\ UNCHANGED <<idx, gives_up, scen, asg, accepted>>

\* the call raises (the solver cannot be set up or run): nothing catches
\* it, the run ends with the traceback
CallRaises ==
    /\ pc = "call"
    /\ calls' = Append(calls, Order[idx])
    /\ pc' = "aborted"
    /\ UNCHANGED <<idx, stdout, solver, result, model, retval, seen, gives_up,
                   scen, asg, accepted>>

\* print(<the value returned>), then on to the next statement
PrintResult ==
    /\ pc = "print"
    /\ stdout' = Append(stdout, Line(retval))
    /\ retval' = None /\ result' = "none" /\ model' = NoModel
    /\ IF idx < Len(Order)
       THEN idx' = idx + 1 /\ pc' = "header"
       ELSE idx' = idx /\ pc' = "done"
    /\ UNCHANGED <<solver, calls, seen, gives_up,
                   scen, asg, accepted>>

Next == PrintHeader \/ CallCheck \/ CallRaises \/ PrintResult

Spec == Init /\ [][Next]_vars

----------------------------------------------------------------------------
(* Any caller: the checks called one at a time, any of them, any number of *)
(* times up to MaxCalls, in one process; idx counts the calls made.        *)

InitRepeat ==
    /\ pc = "idle" /\ idx = 0
    /\ stdout = <<>>
    /\ solver = {} /\ result = "none" /\ model = NoModel /\ retval = None
    /\ calls = <<>>
    /\ seen = [s \in Scenarios |-> {}]
    /\ gives_up \in SUBSET Scenarios
    /\ Idle

AnyCall ==
    /\ pc = "idle"
    /\ idx < MaxCalls
    /\ \E s \in Scenarios : Call(s)
    /\ idx' = idx + 1
    /\ pc' = "returned"
    /\ UNCHANGED <<calls, gives_up, scen, asg, accepted>>

AnyCallRaises ==
    /\ pc = "idle"
    /\ idx < MaxCalls
    /\ idx' = idx + 1
    /\ pc' = "aborted"
    /\ UNCHANGED <<stdout, solver, result, model, retval, calls, seen,
                   gives_up, scen, asg, accepted>>

\* the caller drops the value it was given
Discard ==
    /\ pc = "returned"
    /\ retval' = None /\ result' = "none" /\ model' = NoModel
    /\ pc' = "idle"
    /\ UNCHANGED <<idx, stdout, solver, calls, seen, gives_up,
                   scen, asg, accepted>>

NextRepeat == AnyCall \/ AnyCallRaises \/ Discard

SpecRepeat == InitRepeat /\ [][NextRepeat]_vars

----------------------------------------------------------------------------
(* The constraint list of a check applied to one assignment of its         *)
(* variables.                                                              *)

InitEval ==
    /\ pc = "eval" /\ idx = 0
    /\ stdout = <<>>
    /\ solver = {} /\ result = "none" /\ model = NoModel /\ retval = None
    /\ calls = <<>>
    /\ seen = [s \in Scenarios |-> {}]
    /\ gives_up = {}
    /\ scen \in Scenarios
    /\ asg \in Grid(Variables(scen))
    /\ accepted = "none"

Evaluate ==
    /\ pc = "eval"
    /\ accepted' = IF Holds(Assertion(scen, "constraints"), asg)
                   THEN "yes" ELSE "no"
    /\ pc' = "evaluated"
    /\ UNCHANGED <<idx, stdout, solver, result, model, retval, calls, seen,
                   gives_up, scen, asg>>

NextEval == Evaluate

SpecEval == InitEval /\ [][NextEval]_vars

----------------------------------------------------------------------------
(* What the specification declares for each scenario: the constraints, the *)
(* return formula and the safety bound B; and how a reported text reads as *)
(* a verdict.                                                              *)

SafetyBound(s) == IF s = 3 THEN 2 ELSE 1

InUnit(x) == RLe(RealVal(0), x) /\ RLe(x, RealVal(1))
InReturnRange(x) == RLe(RealVal(-1), x) /\ RLe(x, RealVal(1))
InTolerance(x) == RLe(Rat(-1, Milli), x) /\ RLe(x, Rat(1, Milli))
WeightSum(a) == RAdd(a.w1, RAdd(a.w2, a.w3))

DeclaredConstraints(s, a) ==
    /\ DOMAIN a = Variables(s)
    /\ \A w \in WNames : InUnit(a[w])
    /\ RLe(WeightSum(a), RealVal(1))
    /\ \A r \in Variables(s) \ (WNames \cup ENames) : InReturnRange(a[r])
    /\ \A e \in Variables(s) \cap ENames : InTolerance(a[e])

ReturnFormula(s, a) ==
    CASE s = 1 -> RAdd(RMul(a.w1, a.r1), RAdd(RMul(a.w2, a.r2), RMul(a.w3, a.r3)))
      [] s = 2 -> RAdd(a.epsilon,
                       RAdd(RMul(a.w1, a.r1),
                            RAdd(RMul(a.w2, a.r2), RMul(a.w3, a.r3))))
      [] s = 3 -> RAdd(RAdd(RMul(a.w1, a.r1_1),
                            RAdd(RMul(a.w2, a.r2_1), RMul(a.w3, a.r3_1))),
                       RAdd(RMul(a.w1, a.r1_2),
                            RAdd(RMul(a.w2, a.r2_2), RMul(a.w3, a.r3_2))))

OutsideBound(s, a) ==
    \/ RLt(ReturnFormula(s, a), RealVal(-SafetyBound(s)))
    \/ RGt(ReturnFormula(s, a), RealVal(SafetyBound(s)))

FullyInvested(s, a) ==
    /\ DOMAIN a = Variables(s)
    /\ \A w \in WNames : InUnit(a[w])
    /\ REq(WeightSum(a), RealVal(1))
    /\ \A r \in Variables(s) \ (WNames \cup ENames) : InReturnRange(a[r])
    /\ \A e \in Variables(s) \cap ENames : InTolerance(a[e])

Verdicts == {"PROPERTY_HOLDS", "VIOLATION_FOUND", "UNKNOWN"}

VerdictOf(text) ==
    CASE text \in {"Property holds: Portfolio return within [-1, 1]",
                   "Property holds even under small numerical errors.",
                   "Multi-period portfolio return is consistent."}
            -> "PROPERTY_HOLDS"
      [] text \in {"Violation found!",
                   "Violation with numerical drift!",
                   "Violation found in multi-period model!"}
            -> "VIOLATION_FOUND"
      [] OTHER -> "NOT_A_VERDICT"

\* a check has just returned to run_all_tests
Returned == pc = "print"
LastCalled == calls[Len(calls)]

\* the text and the model the check that just returned has reported: what it
\* returned or, when it returned nothing, what it printed
ReportedText ==
    IF retval.kind # "None" THEN retval.text
    ELSE IF stdout[Len(stdout)].text = "" THEN stdout[Len(stdout) - 1].text
    ELSE stdout[Len(stdout)].text
ReportedModel == IF retval.kind = "tuple" THEN retval.model ELSE model
ReportedVerdict == VerdictOf(ReportedText)

VerdictLines == SelectSeq(stdout, LAMBDA l : VerdictOf(l.text) \in Verdicts)
HeaderLines ==
    SelectSeq(stdout, LAMBDA l : l.text \in {Header(s) : s \in Scenarios})

----------------------------------------------------------------------------
\* C1: the single-period check finds no assignment that satisfies the
\* constraints with a return outside [-1, 1]: whenever it has returned, the
\* solver did not answer sat and the check reports that the property holds.
C1_SinglePeriodHolds ==
    (Returned /\ LastCalled = 1) =>
        /\ result # "sat"
        /\ ReportedVerdict = "PROPERTY_HOLDS"

C1_Witness ==
    /\ Returned /\ LastCalled = 1
    /\ result = "unsat"
    /\ ReportedVerdict = "PROPERTY_HOLDS"

\* C2: the drift check, whenever it has returned, reports that the property
\* holds.
C2_DriftHolds ==
    (Returned /\ LastCalled = 2) => ReportedVerdict = "PROPERTY_HOLDS"

\* C3: the two-period check finds no assignment that satisfies the
\* constraints with a total outside the closed interval [-2, 2], totals of
\* exactly 2 and -2 included: whenever it has returned, the solver did not
\* answer sat and the check reports that the property holds.
C3_TwoPeriodHolds ==
    (Returned /\ LastCalled = 3) =>
        /\ result # "sat"
        /\ ReportedVerdict = "PROPERTY_HOLDS"

C3_Witness ==
    /\ Returned /\ LastCalled = 3
    /\ result = "unsat"
    /\ ReportedVerdict = "PROPERTY_HOLDS"
    /\ \E a \in Grid(Variables(3)) :
          DeclaredConstraints(3, a) /\ REq(ReturnFormula(3, a), RealVal(2))
    /\ \E a \in Grid(Variables(3)) :
          DeclaredConstraints(3, a) /\ REq(ReturnFormula(3, a), RealVal(-2))

\* C4: when the solver answers unknown the reported verdict is UNKNOWN, and
\* a verdict that the property holds is reported only on the answer unsat.
C4_UnknownSurfaced ==
    Returned =>
        /\ result = "unknown" => ReportedVerdict = "UNKNOWN"
        /\ ReportedVerdict = "PROPERTY_HOLDS" => result = "unsat"

\* C5: whenever a check reports a violation it reports an assignment, and
\* that assignment satisfies every declared constraint of the scenario and
\* puts the return formula strictly below -B or strictly above B.
C5_CounterexampleValid ==
    (Returned /\ ReportedVerdict = "VIOLATION_FOUND") =>
        /\ ReportedModel # NoModel
        /\ \A m \in ReportedModel :
              /\ DeclaredConstraints(LastCalled, m)
              /\ OutsideBound(LastCalled, m)

C5_Witness ==
    /\ Returned /\ ReportedVerdict = "VIOLATION_FOUND"
    /\ LastCalled = 2
    /\ \E m \in ReportedModel : OutsideBound(2, m)

\* C6: a run of the suite that has ended, by a raised error too, has
\* invoked all three checks.
C6_AllRunDespiteFailure ==
    pc \in {"done", "aborted"} =>
        \A s \in Scenarios : \E i \in 1..Len(calls) : calls[i] = s

\* C7: the checks are invoked in the order single-period, drift, two-period,
\* none repeated and none passed over; the headers are written in that
\* order; the verdict of each check is on standard output before the next
\* check is invoked; and a run that reaches its end has invoked all three
\* and written three verdicts, whatever they were.
C7_FixedOrder ==
    /\ Len(calls) <= 3
    /\ \A i \in 1..Len(calls) : calls[i] = i
    /\ \A i \in 1..Len(HeaderLines) : HeaderLines[i].text = Header(i)
    /\ Len(VerdictLines) >= Len(calls) - 1
    /\ Len(VerdictLines) <= Len(calls)
    /\ pc \in {"header", "call"} => Len(VerdictLines) = Len(calls)
    /\ pc = "done" => calls = <<1, 2, 3>> /\ Len(VerdictLines) = 3

C7_Witness ==
    /\ pc = "done"
    /\ calls = <<1, 2, 3>>
    /\ Len(VerdictLines) = 3
    /\ VerdictOf(VerdictLines[2].text) = "VIOLATION_FOUND"

\* C8: however often and in whatever order the checks are called, each call
\* leaves a session holding its own assertions only, and all the calls of
\* one check report the same verdict.
C8_Idempotent ==
    /\ \A s \in Scenarios : Cardinality(seen[s]) <= 1
    /\ pc = "returned" => \E s \in Scenarios : solver = Added(s)

C8_Witness ==
    /\ pc = "returned" /\ idx = 3
    /\ Len(stdout) = 2
    /\ seen[2] = {"Violation with numerical drift!"}
    /\ Cardinality(seen[3]) = 1
    /\ solver = Added(3)

\* C9: every check returns a verdict to its caller, with a counterexample
\* attached exactly when the verdict is VIOLATION_FOUND.
C9_ReturnsVerdict ==
    Returned =>
        /\ VerdictOf(retval.text) \in Verdicts
        /\ retval.model # NoModel <=> VerdictOf(retval.text) = "VIOLATION_FOUND"

\* C10: an assignment with every weight in [0, 1], the weights summing to
\* exactly 1, every return in [-1, 1] and the drift within tolerance
\* satisfies the whole constraint list of its scenario.
C10_FullyInvestedAccepted ==
    (pc = "evaluated" /\ FullyInvested(scen, asg)) => accepted = "yes"

C10_Witness ==
    /\ pc = "evaluated"
    /\ scen = 3
    /\ FullyInvested(scen, asg)
    /\ REq(asg.w1, RealVal(1))
    /\ accepted = "yes"

====
